---- MODULE Spec2Model ----
(***************************************************************************)
(* Model of the NetSuite -> Supabase replication scripts:                  *)
(*   scripts/sync-netsuite-h1-2025.py       ("h1": watermark, streaming)   *)
(*   scripts/sync-netsuite-wholesale-v2.py  ("v2": offset, streaming)      *)
(*   scripts/sync-netsuite-wholesale.py     ("ws": offset, fetch-all then  *)
(*                                           upsert in batches)            *)
(* One run of one paginated phase is modelled step by step: the loop head  *)
(* that issues the query, every attempt of make_ns_request, the handling   *)
(* of the response (stop rules, cursor update, transform) and the write    *)
(* through supabase_request.  Page size, batch size and the source rows    *)
(* are drawn from small sets in Init.  Further specifications cover the    *)
(* sink alone (SpecSink), the line-item phase of h1 (SpecLines,            *)
(* SpecTransform), main up to its first phase (SpecMain), a phase run      *)
(* twice (SpecRerun) and the request signature (SpecSign).                 *)
(***************************************************************************)
EXTENDS Integers, Sequences, FiniteSets

\* ---------------------------------------------------------------- bounds
MaxId == 5
MaxLimit == 2
MaxBatch == 2
SinkKeys == 2
MaxVal == 2
MaxSinkWrites == 3
MaxTxn == 2
MaxLine == 2
MaxLines == 2
MaxMainId == 2
MaxRerunId == 3
MaxSecret == 2
MaxDriftId == 2

\* ------------------------------------------------------ program constants
\* Fault variant: the loop allows one attempt too many.
retries_off_by_one == 3 + 1
retries == 3
RATE_LIMIT_SLEEP == 30
ERROR_SLEEP == 5

VARIABLES
    script,            \* which function runs: a phase ("h1", "v2", "ws", "h1_lines"), a main, "sink", "sign"
    source,            \* the source rows, in the order the query's ORDER BY gives
    limit,             \* page size (limit = 1000 in the scripts)
    batch_size,        \* sync_customers' upsert batch size (batch_size = 100)
    pc,                \* position in the phase
    last_id,           \* watermark cursor (h1)
    offset,            \* offset cursor (v2, ws)
    batch_num,         \* loop iteration counter
    total_transactions,\* records-written total
    items,             \* rows of the page just fetched
    records,           \* the Batch built from items
    all_customers,     \* rows accumulated by sync_customers
    i,                 \* index of sync_customers' upsert loop
    attempt,           \* make_ns_request: the for loop's attempt
    response,          \* make_ns_request's return value
    drawn,             \* number of secrets.token_hex draws so far
    dest,              \* destination table: a sequence of rows
    \* history (observes the run, never read by the program)
    outcomes,          \* outcomes of the attempts of the current call
    waits,             \* sleeps of the current call, in seconds
    sent,              \* nonce of every request sent in the run
    queries,           \* cursor value sent with every page fetch
    pages,             \* the non-empty pages received, in order
    writes,            \* every write call: its batch and whether accepted
    fetchFailed,       \* the phase hit a page-fetch failure
    first,             \* sink: destination after the first accepted write
    dest0,             \* the destination table when the run started
    lines,             \* the source rows of the line-item query (h1)
    last_line_id,      \* watermark cursor of sync_line_items (h1)
    total_line_items,  \* records-written total of the line-item phase
    run,               \* how many times the phase has been started
    customer_ids,      \* v2: the ids get_wholesale_customer_ids returned
    req,               \* signing: the two requests being signed
    signature,         \* signing: the authentication codes computed
    all_transactions,  \* wholesale sync_transactions: the rows fetched in step 1
    line_dest,         \* wholesale sync_transactions: the line-item table
    total_lines        \* wholesale sync_transactions: the line-item total returned

vars == <<script, source, limit, batch_size, pc, last_id, offset, batch_num,
          total_transactions, items, records, all_customers, i, attempt,
          response, drawn, dest, outcomes, waits, sent, queries, pages,
          writes, fetchFailed, first, dest0, lines, last_line_id,
          total_line_items, run, customer_ids, req, signature,
          all_transactions, line_dest, total_lines>>

\* --------------------------------------------------------------- helpers
Status(c) == [kind |-> "status", code |-> c]
Exc == [kind |-> "exc", code |-> 0]
None == [kind |-> "None", code |-> 0]
Unset == [kind |-> "unset", code |-> 0]

\* What one attempt can meet: a response with some status, or a transport
\* exception raised by requests.post.
Outcomes == {Status(200), Status(401), Status(429), Status(500), Exc}

\* What the destination can answer to a write.
SbStatuses == {201, 500}

Range(s) == {s[k] : k \in DOMAIN s}

Ids(rows) == [k \in DOMAIN rows |-> rows[k].id]

SetMax(S) == CHOOSE x \in S : \A y \in S : y <= x

RECURSIVE SortById(_)
SortById(R) ==
    IF R = {} THEN <<>>
    ELSE LET m == CHOOSE r \in R : \A q \in R : r.id <= q.id
         IN <<m>> \o SortById(R \ {m})

RECURSIVE Flatten(_)
Flatten(ss) == IF ss = <<>> THEN <<>> ELSE Head(ss) \o Flatten(Tail(ss))

Take(s, n) == SubSeq(s, 1, IF Len(s) < n THEN Len(s) ELSE n)

Row(id) == [id |-> id, val |-> 1]

RECURSIVE Desc(_)
Desc(S) == IF S = {} THEN <<>> ELSE <<Row(SetMax(S))>> \o Desc(S \ {SetMax(S)})

Asc(S) == SortById({Row(x) : x \in S})

\* ------------------------------------------------------- the source API
\* The watermark query of sync_transactions (h1): WHERE t.id > last_id
\* ORDER BY t.id FETCH NEXT limit ROWS ONLY.
WatermarkQuery(rows, last, lim) ==
    Take(SortById({r \in Range(rows) : r.id > last}), lim)

\* The offset query of the V2 and wholesale scripts: ORDER BY ... OFFSET off
\* ROWS FETCH NEXT limit ROWS ONLY, over rows already in ORDER BY order.
OffsetQuery(rows, off, lim) ==
    SubSeq(rows, off + 1, IF Len(rows) < off + lim THEN Len(rows) ELSE off + lim)

\* ------------------------------------------------------- make_ns_request
\* secrets.token_hex(16): every draw is a value never drawn before.
\* Fault variant: the nonce is drawn once per call and reused by its retries.
stale_nonce == IF attempt = 0 THEN drawn + 1 ELSE sent[Len(sent)]

oauth_nonce == drawn + 1

\* Fault variant: a 500 is retried like a 429.
retry_on_server_error(o) == o.kind = "status" /\ o.code \in {429, 500}

is_rate_limited(o) == o.kind = "status" /\ o.code = 429

\* Fault variant: when the attempts run out the last response is returned.
last_response(o) == o

\* The loop ran out of attempts: return None, whatever the last attempt met.
exhausted(o) == None

\* One pass of the body of `for attempt in range(retries)`: sign, send, and
\* either return the response, or sleep and go round again; when the loop
\* is exhausted the function returns None.
make_ns_request ==
    /\ pc = "ns"
    /\ attempt < retries
    /\ \E o \in Outcomes :
        /\ drawn' = drawn + 1
        /\ sent' = Append(sent, oauth_nonce)
        /\ outcomes' = Append(outcomes, o)
        /\ IF o.kind = "exc" \/ is_rate_limited(o)
           THEN /\ waits' = Append(waits, IF o.kind = "exc" THEN ERROR_SLEEP
                                                             ELSE RATE_LIMIT_SLEEP)
                /\ attempt' = attempt + 1
                /\ IF attempt + 1 < retries
                   THEN pc' = "ns" /\ response' = response
                   ELSE pc' = "resp" /\ response' = exhausted(o)
           ELSE /\ waits' = waits
                /\ attempt' = attempt
                /\ response' = o
                /\ pc' = "resp"
    /\ UNCHANGED <<script, source, limit, batch_size, last_id, offset, batch_num,
                   total_transactions, items, records, all_customers, i, dest,
                   queries, pages, writes, fetchFailed, first, dest0,
                   lines, last_line_id, total_line_items, run, customer_ids,
                   req, signature,
                   all_transactions, line_dest, total_lines>>

\* ---------------------------------------------------------- the sink
accepted(status) == status \in {200, 201, 204}

UpsertRow(table, r) ==
    IF \E k \in DOMAIN table : table[k].key = r.key
    THEN [k \in DOMAIN table |-> IF table[k].key = r.key THEN r ELSE table[k]]
    ELSE Append(table, r)

\* Fault variant: the rows are inserted with no conflict resolution.
plain_insert(table, data) == table \o data

\* Prefer: resolution=merge-duplicates -- insert, and on a conflict on the
\* conflict key overwrite the row.
RECURSIVE merge_duplicates(_, _)
merge_duplicates(table, data) ==
    IF data = <<>> THEN table
    ELSE merge_duplicates(UpsertRow(table, Head(data)), Tail(data))

\* Fault variant: a rejected Batch is applied all the same.
applied_when_rejected(table, data, status) == merge_duplicates(table, data)

\* supabase_request(..., method='POST', data=records): the table after the
\* call, given the status the destination answers with.
supabase_request(table, data, status) ==
    IF accepted(status) THEN merge_duplicates(table, data) ELSE table

\* The transform of one page into a Batch.
Transform(rows) == [k \in DOMAIN rows |-> [key |-> rows[k].id, val |-> rows[k].val]]

\* --------------------------------------------------------- stop rules
\* Fault variant: a full page is taken for the last one.
stop_on_full_page(rows, lim) == Len(rows) <= lim

short_page(rows, lim) == Len(rows) < lim

fetch_ok(r) == r.kind = "status" /\ r.code = 200

\* -------------------------------------- h1: sync_transactions (watermark)
\* Fault variant: the cursor moves one past the largest id seen.
watermark_plus_one(rows) == SetMax(Range(Ids(rows))) + 1

\* Fault variant: the cursor is not moved.
watermark_stuck(rows) == last_id

next_watermark(rows) == SetMax(Range(Ids(rows)))

\* Fault variant: the total counts the batch whatever the sink answered.
count_rejected(total, recs, status) == total + Len(recs)

\* total += len(records), in the else branch of the status test.
written_total(total, recs, status) ==
    IF accepted(status) THEN total + Len(recs) ELSE total

\* Fault variant: a rejected batch ends the phase.
break_on_write_error(status) ==
    IF ~accepted(status) \/ short_page(items, limit) THEN "done" ELSE "top"

after_write(status) == IF short_page(items, limit) THEN "done" ELSE "top"

\* Fault variant: the short-page rule is applied before the write.
stop_before_write(rows, lim) == IF short_page(rows, lim) THEN "done" ELSE "write"

\* A non-empty page, short or full, is transformed and handed to the sink.
after_page(rows, lim) == "write"

\* Fault variant: a failed fetch does not end the loop.
skip_on_fetch_error == "top"

on_fetch_error == "done"

\* while True: batch_num += 1; build the query; call make_ns_request.
sync_transactions_fetch ==
    /\ script = "h1" /\ pc = "top"
    /\ batch_num' = batch_num + 1
    /\ queries' = Append(queries, last_id)
    /\ attempt' = 0 /\ outcomes' = <<>> /\ waits' = <<>>
    /\ pc' = "ns"
    /\ UNCHANGED <<script, source, limit, batch_size, last_id, offset,
                   total_transactions, items, records, all_customers, i,
                   response, drawn, dest, sent, pages, writes, fetchFailed, first, dest0,
                   lines, last_line_id, total_line_items, run, customer_ids,
                   req, signature,
                   all_transactions, line_dest, total_lines>>

\* The response check, the empty-page rule, the cursor update, the transform.
sync_transactions_page ==
    /\ script = "h1" /\ pc = "resp"
    /\ IF ~fetch_ok(response)
       THEN /\ fetchFailed' = TRUE
            /\ pc' = on_fetch_error
            /\ UNCHANGED <<items, last_id, records, pages>>
       ELSE /\ items' = WatermarkQuery(source, last_id, limit)
            /\ fetchFailed' = fetchFailed
            /\ IF items' = <<>>
               THEN pc' = "done" /\ UNCHANGED <<last_id, records, pages>>
               ELSE /\ last_id' = next_watermark(items')
                    /\ records' = Transform(items')
                    /\ pages' = Append(pages, Ids(items'))
                    /\ pc' = after_page(items', limit)
    /\ UNCHANGED <<script, source, limit, batch_size, offset, batch_num,
                   total_transactions, all_customers, i, attempt, response,
                   drawn, dest, outcomes, waits, sent, queries, writes, first, dest0,
                   lines, last_line_id, total_line_items, run, customer_ids,
                   req, signature,
                   all_transactions, line_dest, total_lines>>

\* The upsert of the Batch, the total, the short-page rule.
sync_transactions_write ==
    /\ script = "h1" /\ pc = "write"
    /\ \E status \in SbStatuses :
        /\ dest' = supabase_request(dest, records, status)
        /\ writes' = Append(writes, [keys |-> Ids(items), ok |-> accepted(status)])
        /\ total_transactions' = written_total(total_transactions, records, status)
        /\ pc' = after_write(status)
    /\ UNCHANGED <<script, source, limit, batch_size, last_id, offset, batch_num,
                   items, records, all_customers, i, attempt, response, drawn,
                   outcomes, waits, sent, queries, pages, fetchFailed, first, dest0,
                   lines, last_line_id, total_line_items, run, customer_ids,
                   req, signature,
                   all_transactions, line_dest, total_lines>>

\* ------------------- v2: sync_transactions_streaming (offset, streaming)
\* Fault variant: the offset grows by one row too many.
skip_one_offset(off, lim) == off + lim + 1

next_offset(off, lim) == off + lim

sync_transactions_streaming_fetch ==
    /\ script = "v2" /\ pc = "top"
    /\ batch_num' = batch_num + 1
    /\ queries' = Append(queries, offset)
    /\ attempt' = 0 /\ outcomes' = <<>> /\ waits' = <<>>
    /\ pc' = "ns"
    /\ UNCHANGED <<script, source, limit, batch_size, last_id, offset,
                   total_transactions, items, records, all_customers, i,
                   response, drawn, dest, sent, pages, writes, fetchFailed, first, dest0,
                   lines, last_line_id, total_line_items, run, customer_ids,
                   req, signature,
                   all_transactions, line_dest, total_lines>>

sync_transactions_streaming_page ==
    /\ script = "v2" /\ pc = "resp"
    /\ IF ~fetch_ok(response)
       THEN /\ fetchFailed' = TRUE
            /\ pc' = on_fetch_error
            /\ UNCHANGED <<items, records, pages>>
       ELSE /\ items' = OffsetQuery(source, offset, limit)
            /\ fetchFailed' = fetchFailed
            /\ IF items' = <<>>
               THEN pc' = "done" /\ UNCHANGED <<records, pages>>
               ELSE /\ records' = Transform(items')
                    /\ pages' = Append(pages, Ids(items'))
                    /\ pc' = after_page(items', limit)
    /\ UNCHANGED <<script, source, limit, batch_size, last_id, offset, batch_num,
                   total_transactions, all_customers, i, attempt, response,
                   drawn, dest, outcomes, waits, sent, queries, writes, first, dest0,
                   lines, last_line_id, total_line_items, run, customer_ids,
                   req, signature,
                   all_transactions, line_dest, total_lines>>

sync_transactions_streaming_write ==
    /\ script = "v2" /\ pc = "write"
    /\ \E status \in SbStatuses :
        /\ dest' = supabase_request(dest, records, status)
        /\ writes' = Append(writes, [keys |-> Ids(items), ok |-> accepted(status)])
        /\ total_transactions' = written_total(total_transactions, records, status)
        /\ pc' = after_write(status)
        /\ offset' = IF pc' = "top" THEN next_offset(offset, limit) ELSE offset
    /\ UNCHANGED <<script, source, limit, batch_size, last_id, batch_num,
                   items, records, all_customers, i, attempt, response, drawn,
                   outcomes, waits, sent, queries, pages, fetchFailed, first, dest0,
                   lines, last_line_id, total_line_items, run, customer_ids,
                   req, signature,
                   all_transactions, line_dest, total_lines>>

\* ------------------- ws: sync_customers (offset, fetch all, then upsert)
\* Where the fetch loop's break leads: the upsert loop, which has nothing
\* to do when no customer was fetched.
enter_upsert(all) == IF Len(all) = 0 THEN "done" ELSE "upsert"

sync_customers_fetch ==
    /\ script = "ws" /\ pc = "top"
    /\ queries' = Append(queries, offset)
    /\ attempt' = 0 /\ outcomes' = <<>> /\ waits' = <<>>
    /\ pc' = "ns"
    /\ UNCHANGED <<script, source, limit, batch_size, last_id, offset, batch_num,
                   total_transactions, items, records, all_customers, i,
                   response, drawn, dest, sent, pages, writes, fetchFailed, first, dest0,
                   lines, last_line_id, total_line_items, run, customer_ids,
                   req, signature,
                   all_transactions, line_dest, total_lines>>

sync_customers_page ==
    /\ script = "ws" /\ pc = "resp"
    /\ IF ~fetch_ok(response)
       THEN /\ fetchFailed' = TRUE
            /\ pc' = enter_upsert(all_customers)
            /\ UNCHANGED <<items, all_customers, pages, offset>>
       ELSE /\ items' = OffsetQuery(source, offset, limit)
            /\ fetchFailed' = fetchFailed
            /\ IF items' = <<>>
               THEN /\ pc' = enter_upsert(all_customers)
                    /\ UNCHANGED <<all_customers, pages, offset>>
               ELSE /\ all_customers' = all_customers \o items'
                    /\ pages' = Append(pages, Ids(items'))
                    /\ IF short_page(items', limit)
                       THEN pc' = enter_upsert(all_customers') /\ offset' = offset
                       ELSE pc' = "top" /\ offset' = next_offset(offset, limit)
    /\ i' = 0
    /\ UNCHANGED <<script, source, limit, batch_size, last_id, batch_num,
                   total_transactions, records, attempt, response, drawn, dest,
                   outcomes, waits, sent, queries, writes, first, dest0,
                   lines, last_line_id, total_line_items, run, customer_ids,
                   req, signature,
                   all_transactions, line_dest, total_lines>>

\* for i in range(0, len(all_customers), batch_size): one pass of the body.
sync_customers_upsert ==
    /\ script = "ws" /\ pc = "upsert"
    /\ i < Len(all_customers)
    /\ LET hi == IF Len(all_customers) < i + batch_size
                 THEN Len(all_customers) ELSE i + batch_size
           batch == SubSeq(all_customers, i + 1, hi)
       IN /\ records' = Transform(batch)
          /\ \E status \in SbStatuses :
               /\ dest' = supabase_request(dest, records', status)
               /\ writes' = Append(writes, [keys |-> Ids(batch),
                                            ok |-> accepted(status)])
          /\ i' = i + batch_size
          /\ pc' = IF i' < Len(all_customers) THEN "upsert" ELSE "done"
    /\ UNCHANGED <<script, source, limit, batch_size, last_id, offset, batch_num,
                   total_transactions, items, all_customers, attempt, response,
                   drawn, outcomes, waits, sent, queries, pages, fetchFailed,
                   first, dest0,
                   lines, last_line_id, total_line_items, run, customer_ids,
                   req, signature,
                   all_transactions, line_dest, total_lines>>

\* The phases: sync_transactions (h1), sync_transactions_streaming (v2),
\* sync_customers (ws).
Scripts == {"h1", "v2", "ws"}

\* ------------------------------------- supabase_request: transport error
\* The Batch about to be posted.
pending_batch ==
    IF script = "ws"
    THEN Transform(SubSeq(all_customers, i + 1,
                          IF Len(all_customers) < i + batch_size
                          THEN Len(all_customers) ELSE i + batch_size))
    ELSE records

\* requests.post inside supabase_request raises (connection error, broken
\* connection): nothing catches it in supabase_request, in the phase or in
\* main, so the process ends with a traceback.  The destination may or may
\* not have applied the Batch before the connection was lost.
supabase_transport_error ==
    /\ pc \in {"write", "upsert"}
    /\ script \in Scripts \cup {"h1_lines"}
    /\ dest' \in {dest, merge_duplicates(dest, pending_batch)}
    /\ pc' = "crash"
    /\ UNCHANGED <<script, source, limit, batch_size, last_id, offset, batch_num,
                   total_transactions, items, records, all_customers, i,
                   attempt, response, drawn, outcomes, waits, sent, queries,
                   pages, writes, fetchFailed, first, dest0,
                   lines, last_line_id, total_line_items, run, customer_ids,
                   req, signature,
                   all_transactions, line_dest, total_lines>>

\* ------------------------------------------------------ specification

Init ==
    /\ script \in Scripts
    /\ \E S \in SUBSET (1..MaxId) :
          source = IF script = "v2" THEN Desc(S) ELSE Asc(S)
    /\ limit \in 1..MaxLimit
    /\ batch_size \in IF script = "ws" THEN 1..MaxBatch ELSE {0}
    /\ pc = "top"
    /\ last_id = 0 /\ offset = 0 /\ batch_num = 0 /\ total_transactions = 0
    /\ items = <<>> /\ records = <<>> /\ all_customers = <<>> /\ i = 0
    /\ attempt = 0 /\ response = Unset /\ drawn = 0
    /\ dest = <<>>
    /\ outcomes = <<>> /\ waits = <<>> /\ sent = <<>> /\ queries = <<>>
    /\ pages = <<>> /\ writes = <<>> /\ fetchFailed = FALSE /\ first = <<>>
    /\ dest0 = dest
    /\ lines = {} /\ last_line_id = 0 /\ total_line_items = 0 /\ run = 1
    /\ customer_ids = IF script = "v2" THEN <<1>> ELSE <<>>
    /\ req = <<>> /\ signature = <<>>
    /\ all_transactions = <<>> /\ line_dest = <<>> /\ total_lines = 0

Next ==
    \/ make_ns_request
    \/ sync_transactions_fetch
    \/ sync_transactions_page
    \/ sync_transactions_write
    \/ sync_transactions_streaming_fetch
    \/ sync_transactions_streaming_page
    \/ sync_transactions_streaming_write
    \/ sync_customers_fetch
    \/ sync_customers_page
    \/ sync_customers_upsert
    \/ supabase_transport_error

Spec == Init /\ [][Next]_vars

\* ------------------------------------------- the sink on its own inputs
\* supabase_request applied to every small destination table and every small
\* Batch: the same Batch is written again and again.
SinkRows == [key : 1..SinkKeys, val : 1..MaxVal]

UniqueKeys(t) == \A a, b \in DOMAIN t : t[a].key = t[b].key => a = b

SinkTables ==
    {t \in UNION {[1..n -> SinkRows] : n \in 0..SinkKeys} : UniqueKeys(t)}

sink_write ==
    /\ script = "sink" /\ pc = "write"
    /\ Len(writes) < MaxSinkWrites
    /\ \E status \in SbStatuses :
        /\ dest' = supabase_request(dest, records, status)
        /\ writes' = Append(writes, [keys |-> [k \in DOMAIN records |-> records[k].key],
                                     ok |-> accepted(status)])
        /\ first' = IF accepted(status) /\ \A k \in DOMAIN writes : ~writes[k].ok
                    THEN dest' ELSE first
    /\ UNCHANGED <<script, source, limit, batch_size, pc, last_id, offset,
                   batch_num, total_transactions, items, records, all_customers,
                   i, attempt, response, drawn, outcomes, waits, sent, queries,
                   pages, fetchFailed, dest0,
                   lines, last_line_id, total_line_items, run, customer_ids,
                   req, signature,
                   all_transactions, line_dest, total_lines>>

InitSink ==
    /\ script = "sink"
    /\ source = <<>> /\ limit = 1 /\ batch_size = 0
    /\ pc = "write"
    /\ last_id = 0 /\ offset = 0 /\ batch_num = 0 /\ total_transactions = 0
    /\ items = <<>> /\ all_customers = <<>> /\ i = 0
    /\ records \in SinkTables \ {<<>>}
    /\ attempt = 0 /\ response = Unset /\ drawn = 0
    /\ dest \in SinkTables
    /\ outcomes = <<>> /\ waits = <<>> /\ sent = <<>> /\ queries = <<>>
    /\ pages = <<>> /\ writes = <<>> /\ fetchFailed = FALSE /\ first = <<>>
    /\ dest0 = dest
    /\ lines = {} /\ last_line_id = 0 /\ total_line_items = 0 /\ run = 1
    /\ customer_ids = <<>>
    /\ req = <<>> /\ signature = <<>>
    /\ all_transactions = <<>> /\ line_dest = <<>> /\ total_lines = 0

NextSink == sink_write

SpecSink == InitSink /\ [][NextSink]_vars

\* ------------------------------------- h1: sync_line_items (watermark)
\* A JSON field of a source row: missing from the object, null, a number,
\* or the decimal string of a number.
Absent == [t |-> "absent", v |-> 0]
JsonNull == [t |-> "null", v |-> 0]
Num(n) == [t |-> "num", v |-> n]
Str(n) == [t |-> "str", v |-> n]

\* Python's truth value of li.get(field): None, 0 and 0.0 are false, every
\* non-empty string is true ("0" included).
truthy(x) == (x.t = "num" /\ x.v # 0) \/ x.t = "str"

\* Fault variant: a missing quantity is left null.
int_or_none(x) == IF truthy(x) THEN Num(x.v) ELSE JsonNull

\* int(li['quantity']) if li.get('quantity') else 0
int_or_zero(x) == IF truthy(x) THEN Num(x.v) ELSE Num(0)

\* float(li['rate']) if li.get('rate') else None
float_or_none(x) == IF truthy(x) THEN Num(x.v) ELSE JsonNull

\* The conflict key on_conflict='ns_transaction_id,ns_line_id'.
LineKey(li) == <<li.transaction_id, li.line_id>>

\* One record of the Batch (item_id, sku and itemtype are copied through and
\* left out).
line_record(li) ==
    [key |-> LineKey(li),
     ns_line_id |-> li.line_id,
     ns_transaction_id |-> li.transaction_id,
     quantity |-> int_or_zero(li.quantity),
     rate |-> float_or_none(li.rate),
     net_amount |-> float_or_none(li.netamount),
     foreign_amount |-> float_or_none(li.foreignamount)]

LineKeys(rows) == [k \in DOMAIN rows |-> LineKey(rows[k])]

\* li['transaction_id'] raises KeyError when the row has no such field.
key_error(rows) == \E k \in DOMAIN rows : rows[k].transaction_id = Absent

Min(a, b) == IF a < b THEN a ELSE b

\* WHERE tl.id > last_line_id ORDER BY tl.id FETCH NEXT limit ROWS ONLY:
\* every page the source may answer with.  Rows that share a line id come
\* in an order the query does not fix.
LineQuery(rows, last, lim) ==
    LET M == {r \in rows : r.line_id > last}
        n == Min(lim, Cardinality(M))
    IN {p \in [1..n -> M] :
          /\ \A a, b \in 1..n : a < b => p[a] # p[b] /\ p[a].line_id <= p[b].line_id
          /\ \A r \in M \ Range(p) : \A a \in 1..n : p[a].line_id <= r.line_id}

MaxLineId(rows) == SetMax({rows[k].line_id : k \in DOMAIN rows})

sync_line_items_fetch ==
    /\ script = "h1_lines" /\ pc = "top"
    /\ batch_num' = batch_num + 1
    /\ queries' = Append(queries, last_line_id)
    /\ attempt' = 0 /\ outcomes' = <<>> /\ waits' = <<>>
    /\ pc' = "ns"
    /\ UNCHANGED <<script, source, limit, batch_size, last_id, offset,
                   total_transactions, items, records, all_customers, i,
                   response, drawn, dest, sent, pages, writes, fetchFailed, first,
                   dest0, lines, last_line_id, total_line_items, run, customer_ids,
                   req, signature,
                   all_transactions, line_dest, total_lines>>

\* The response check, the empty-page rule, the cursor update, the transform.
sync_line_items_page ==
    /\ script = "h1_lines" /\ pc = "resp"
    /\ IF ~fetch_ok(response)
       THEN /\ fetchFailed' = TRUE
            /\ pc' = on_fetch_error
            /\ UNCHANGED <<items, last_line_id, records, pages>>
       ELSE /\ items' \in LineQuery(lines, last_line_id, limit)
            /\ fetchFailed' = fetchFailed
            /\ IF items' = <<>>
               THEN pc' = "done" /\ UNCHANGED <<last_line_id, records, pages>>
               ELSE /\ last_line_id' = MaxLineId(items')
                    /\ pages' = Append(pages, LineKeys(items'))
                    /\ IF key_error(items')
                       THEN pc' = "crash" /\ records' = records
                       ELSE /\ records' = [k \in DOMAIN items' |-> line_record(items'[k])]
                            /\ pc' = "write"
    /\ UNCHANGED <<script, source, limit, batch_size, last_id, offset, batch_num,
                   total_transactions, all_customers, i, attempt, response,
                   drawn, dest, outcomes, waits, sent, queries, writes, first,
                   dest0, lines, total_line_items, run, customer_ids,
                   req, signature,
                   all_transactions, line_dest, total_lines>>

\* The upsert of the Batch, the total, the short-page rule.
sync_line_items_write ==
    /\ script = "h1_lines" /\ pc = "write"
    /\ \E status \in SbStatuses :
        /\ dest' = supabase_request(dest, records, status)
        /\ writes' = Append(writes, [keys |-> LineKeys(items), ok |-> accepted(status)])
        /\ total_line_items' = written_total(total_line_items, records, status)
        /\ pc' = after_write(status)
    /\ UNCHANGED <<script, source, limit, batch_size, last_id, offset, batch_num,
                   total_transactions, items, records, all_customers, i, attempt,
                   response, drawn, outcomes, waits, sent, queries, pages,
                   fetchFailed, first, dest0, lines, last_line_id, run, customer_ids,
                   req, signature,
                   all_transactions, line_dest, total_lines>>

\* The line-item phase over sources whose rows are unique by (transaction
\* id, line id), with every amount present.
LineRow(t, l) ==
    [line_id |-> l, transaction_id |-> Num(t), quantity |-> Num(1),
     rate |-> Num(1), netamount |-> Num(1), foreignamount |-> Num(1)]

InitLines ==
    /\ script = "h1_lines"
    /\ lines \in {L \in SUBSET {LineRow(t, l) : t \in 1..MaxTxn, l \in 1..MaxLine} :
                     Cardinality(L) <= MaxLines}
    /\ limit \in 1..MaxLimit
    /\ source = <<>> /\ batch_size = 0
    /\ pc = "top"
    /\ last_id = 0 /\ offset = 0 /\ batch_num = 0 /\ total_transactions = 0
    /\ items = <<>> /\ records = <<>> /\ all_customers = <<>> /\ i = 0
    /\ attempt = 0 /\ response = Unset /\ drawn = 0
    /\ dest = <<>>
    /\ outcomes = <<>> /\ waits = <<>> /\ sent = <<>> /\ queries = <<>>
    /\ pages = <<>> /\ writes = <<>> /\ fetchFailed = FALSE /\ first = <<>>
    /\ dest0 = dest
    /\ last_line_id = 0 /\ total_line_items = 0 /\ run = 1
    /\ customer_ids = <<>>
    /\ req = <<>> /\ signature = <<>>
    /\ all_transactions = <<>> /\ line_dest = <<>> /\ total_lines = 0

NextLines ==
    \/ make_ns_request
    \/ sync_line_items_fetch
    \/ sync_line_items_page
    \/ sync_line_items_write
    \/ supabase_transport_error

SpecLines == InitLines /\ [][NextLines]_vars

\* The line-item phase over one source row whose fields are missing, null,
\* a number or a string, each on its own.
FieldValues == {Absent, JsonNull, Num(0), Num(MaxVal), Str(0), Str(MaxVal)}

InitTransform ==
    /\ script = "h1_lines"
    /\ \E t \in {Absent, JsonNull, Num(1)} : \E q, r, n, f \in FieldValues :
          lines = {[line_id |-> 1, transaction_id |-> t, quantity |-> q,
                    rate |-> r, netamount |-> n, foreignamount |-> f]}
    /\ limit \in 1..MaxLimit
    /\ source = <<>> /\ batch_size = 0
    /\ pc = "top"
    /\ last_id = 0 /\ offset = 0 /\ batch_num = 0 /\ total_transactions = 0
    /\ items = <<>> /\ records = <<>> /\ all_customers = <<>> /\ i = 0
    /\ attempt = 0 /\ response = Unset /\ drawn = 0
    /\ dest = <<>>
    /\ outcomes = <<>> /\ waits = <<>> /\ sent = <<>> /\ queries = <<>>
    /\ pages = <<>> /\ writes = <<>> /\ fetchFailed = FALSE /\ first = <<>>
    /\ dest0 = dest
    /\ last_line_id = 0 /\ total_line_items = 0 /\ run = 1
    /\ customer_ids = <<>>
    /\ req = <<>> /\ signature = <<>>
    /\ all_transactions = <<>> /\ line_dest = <<>> /\ total_lines = 0

SpecTransform == InitTransform /\ [][NextLines]_vars

\* ------------------------------------------- main, up to its first phase
\* main of each script: the two connection tests, then the first phase
\* function (sync_transactions, sync_transactions_streaming, sync_customers).
Mains == {"main_h1", "main_v2", "main_ws"}

first_phase(s) == IF s = "main_h1" THEN "h1" ELSE IF s = "main_v2" THEN "v2" ELSE "ws"

\* What the destination can answer to a read, or requests.get raises.
SbReadOutcomes == {Status(200), Status(401), Exc}

\* What the customers table can hold when it is read.
CustomerIdLists == {<<>>, <<1>>, <<1, 2>>}

\* test_response = make_ns_request(ns_url, method='POST', body={"q": "SELECT 1"})
main_test_netsuite ==
    /\ script \in Mains /\ pc = "top"
    /\ attempt' = 0 /\ outcomes' = <<>> /\ waits' = <<>>
    /\ pc' = "ns"
    /\ UNCHANGED <<script, source, limit, batch_size, last_id, offset, batch_num,
                   total_transactions, items, records, all_customers, i,
                   response, drawn, dest, sent, queries, pages, writes,
                   fetchFailed, first, dest0, lines, last_line_id,
                   total_line_items, run, customer_ids,
                   req, signature,
                   all_transactions, line_dest, total_lines>>

\* Fault variant: main goes on whatever the source test answered.
ns_test_ignored(r) == "sb_test"

\* if test_response and test_response.status_code == 200: ... else: return
after_ns_test(r) == IF fetch_ok(r) THEN "sb_test" ELSE "aborted"

main_netsuite_tested ==
    /\ script \in Mains /\ pc = "resp"
    /\ pc' = after_ns_test(response)
    /\ UNCHANGED <<script, source, limit, batch_size, last_id, offset, batch_num,
                   total_transactions, items, records, all_customers, i, attempt,
                   response, drawn, dest, outcomes, waits, sent, queries, pages,
                   writes, fetchFailed, first, dest0, lines, last_line_id,
                   total_line_items, run, customer_ids,
                   req, signature,
                   all_transactions, line_dest, total_lines>>

\* test_response = supabase_request('...?limit=1'); on 200 main calls the
\* first phase function, otherwise it returns.  An exception raised by
\* requests.get is not caught.
main_test_supabase ==
    /\ script \in Mains /\ pc = "sb_test"
    /\ \E o \in SbReadOutcomes :
         IF o = Exc
         THEN pc' = "crash" /\ UNCHANGED <<script, response>>
         ELSE /\ response' = o
              /\ IF fetch_ok(o)
                 THEN /\ script' = first_phase(script)
                      /\ pc' = IF script = "main_v2" THEN "gate" ELSE "top"
                 ELSE pc' = "aborted" /\ script' = script
    /\ UNCHANGED <<source, limit, batch_size, last_id, offset, batch_num,
                   total_transactions, items, records, all_customers, i, attempt,
                   drawn, dest, outcomes, waits, sent, queries, pages, writes,
                   fetchFailed, first, dest0, lines, last_line_id,
                   total_line_items, run, customer_ids,
                   req, signature,
                   all_transactions, line_dest, total_lines>>

\* Fault variant: the phase goes on with an empty id list.
gate_ignored(ids) == "top"

\* if not customer_ids: print(...); return 0, 0
customer_gate(ids) == IF ids = <<>> THEN "done" ELSE "top"

\* customer_ids = get_wholesale_customer_ids(): the ids of the customers
\* table on a 200, [] on any other status; then the empty-list test.
get_wholesale_customer_ids ==
    /\ script = "v2" /\ pc = "gate"
    /\ \E o \in SbReadOutcomes :
         IF o = Exc
         THEN pc' = "crash" /\ UNCHANGED <<response, customer_ids>>
         ELSE /\ response' = o
              /\ \E ids \in CustomerIdLists :
                    customer_ids' = IF fetch_ok(o) THEN ids ELSE <<>>
              /\ pc' = customer_gate(customer_ids')
    /\ UNCHANGED <<script, source, limit, batch_size, last_id, offset, batch_num,
                   total_transactions, items, records, all_customers, i, attempt,
                   drawn, dest, outcomes, waits, sent, queries, pages, writes,
                   fetchFailed, first, dest0, lines, last_line_id,
                   total_line_items, run,
                   req, signature,
                   all_transactions, line_dest, total_lines>>

InitMain ==
    /\ script \in Mains
    /\ \E S \in SUBSET (1..MaxMainId) :
          source = IF script = "main_v2" THEN Desc(S) ELSE Asc(S)
    /\ limit \in 1..MaxLimit
    /\ batch_size \in IF script = "main_ws" THEN 1..MaxBatch ELSE {0}
    /\ pc = "top"
    /\ last_id = 0 /\ offset = 0 /\ batch_num = 0 /\ total_transactions = 0
    /\ items = <<>> /\ records = <<>> /\ all_customers = <<>> /\ i = 0
    /\ attempt = 0 /\ response = Unset /\ drawn = 0
    /\ dest = <<>>
    /\ outcomes = <<>> /\ waits = <<>> /\ sent = <<>> /\ queries = <<>>
    /\ pages = <<>> /\ writes = <<>> /\ fetchFailed = FALSE /\ first = <<>>
    /\ dest0 = dest
    /\ lines = {} /\ last_line_id = 0 /\ total_line_items = 0 /\ run = 1
    /\ customer_ids = <<>>
    /\ req = <<>> /\ signature = <<>>
    /\ all_transactions = <<>> /\ line_dest = <<>> /\ total_lines = 0

NextMain ==
    \/ main_test_netsuite
    \/ main_netsuite_tested
    \/ main_test_supabase
    \/ get_wholesale_customer_ids
    \/ Next

SpecMain == InitMain /\ [][NextMain]_vars

\* ------------------------------------------------ running a phase again
\* The operator starts the program again after a run has ended (by return
\* or by an uncaught exception): every local starts anew, the source is the
\* same, the destination is as the first run left it.
rerun ==
    /\ script \in Scripts /\ pc \in {"done", "crash"}
    /\ run = 1
    /\ run' = 2
    /\ pc' = "top"
    /\ last_id' = 0 /\ offset' = 0 /\ batch_num' = 0 /\ total_transactions' = 0
    /\ items' = <<>> /\ records' = <<>> /\ all_customers' = <<>> /\ i' = 0
    /\ attempt' = 0 /\ response' = Unset /\ drawn' = 0
    /\ outcomes' = <<>> /\ waits' = <<>> /\ sent' = <<>> /\ queries' = <<>>
    /\ pages' = <<>> /\ writes' = <<>> /\ fetchFailed' = FALSE
    /\ dest0' = dest
    /\ UNCHANGED <<script, source, limit, batch_size, dest, first, lines,
                   last_line_id, total_line_items, customer_ids,
                   req, signature,
                   all_transactions, line_dest, total_lines>>

InitRerun ==
    /\ script \in Scripts
    /\ \E S \in SUBSET (1..MaxRerunId) :
          source = IF script = "v2" THEN Desc(S) ELSE Asc(S)
    /\ limit \in 1..MaxLimit
    /\ batch_size \in IF script = "ws" THEN 1..MaxBatch ELSE {0}
    /\ pc = "top"
    /\ last_id = 0 /\ offset = 0 /\ batch_num = 0 /\ total_transactions = 0
    /\ items = <<>> /\ records = <<>> /\ all_customers = <<>> /\ i = 0
    /\ attempt = 0 /\ response = Unset /\ drawn = 0
    /\ dest = <<>>
    /\ outcomes = <<>> /\ waits = <<>> /\ sent = <<>> /\ queries = <<>>
    /\ pages = <<>> /\ writes = <<>> /\ fetchFailed = FALSE /\ first = <<>>
    /\ dest0 = dest
    /\ lines = {} /\ last_line_id = 0 /\ total_line_items = 0 /\ run = 1
    /\ customer_ids = IF script = "v2" THEN <<1>> ELSE <<>>
    /\ req = <<>> /\ signature = <<>>
    /\ all_transactions = <<>> /\ line_dest = <<>> /\ total_lines = 0

NextRerun == Next \/ rerun

SpecRerun == InitRerun /\ [][NextRerun]_vars

\* ------------------------------------------- make_ns_request: signing
\* A request to sign: the method, the URL (its part before '?' and its query
\* string), the four credentials, and the timestamp and nonce of the attempt.
Requests ==
    [method : {"POST", "GET"},
     path : {"suiteql", "record"},
     query : {"", "limit=1"},
     consumer_key : 1..MaxSecret, token : 1..MaxSecret,
     consumer_secret : 1..MaxSecret, token_secret : 1..MaxSecret,
     timestamp : 1..MaxSecret, nonce : 1..MaxSecret]

\* The oauth_* parameters, sorted by name and joined.
params_string(r) ==
    <<r.consumer_key, r.nonce, "HMAC-SHA256", r.timestamp, r.token, "1.0">>

\* method & quote(url.split('?')[0]) & quote(params_string)
base_string(r) == <<r.method, r.path, params_string(r)>>

\* quote(NS_CONSUMER_SECRET) & quote(NS_TOKEN_SECRET)
signing_key(r) == <<r.consumer_secret, r.token_secret>>

\* HMAC-SHA256 taken as collision-free: the code stands for the key and the
\* message it was computed from.
oauth_signature(r) == <<signing_key(r), base_string(r)>>

sign ==
    /\ script = "sign" /\ pc = "top"
    /\ signature' = <<oauth_signature(req[1]), oauth_signature(req[2])>>
    /\ pc' = "done"
    /\ UNCHANGED <<script, source, limit, batch_size, last_id, offset, batch_num,
                   total_transactions, items, records, all_customers, i, attempt,
                   response, drawn, dest, outcomes, waits, sent, queries, pages,
                   writes, fetchFailed, first, dest0, lines, last_line_id,
                   total_line_items, run, customer_ids, req,
                   all_transactions, line_dest, total_lines>>

\* Two requests that are the same or differ in exactly one parameter.
InitSign ==
    /\ script = "sign"
    /\ \E a \in Requests : \E b \in Requests :
          /\ Cardinality({f \in DOMAIN a : a[f] # b[f]}) <= 1
          /\ req = <<a, b>>
    /\ signature = <<>>
    /\ all_transactions = <<>> /\ line_dest = <<>> /\ total_lines = 0
    /\ source = <<>> /\ limit = 1 /\ batch_size = 0
    /\ pc = "top"
    /\ last_id = 0 /\ offset = 0 /\ batch_num = 0 /\ total_transactions = 0
    /\ items = <<>> /\ records = <<>> /\ all_customers = <<>> /\ i = 0
    /\ attempt = 0 /\ response = Unset /\ drawn = 0
    /\ dest = <<>>
    /\ outcomes = <<>> /\ waits = <<>> /\ sent = <<>> /\ queries = <<>>
    /\ pages = <<>> /\ writes = <<>> /\ fetchFailed = FALSE /\ first = <<>>
    /\ dest0 = dest
    /\ lines = {} /\ last_line_id = 0 /\ total_line_items = 0 /\ run = 1
    /\ customer_ids = <<>>

NextSign == sign

SpecSign == InitSign /\ [][NextSign]_vars

\* ------------------------------------------- a phase that keeps running
\* The scripts are sequential programs: as long as the call in progress
\* returns (or raises), the next statement is executed.
SpecLive == InitRerun /\ [][Next]_vars /\ WF_vars(Next)

\* ------------------------------------ offset mode over a live source
\* The source is a live system: between two page fetches rows can be added
\* and the ORDER BY (t.trandate DESC, t.id DESC; c.id) can place the rows
\* differently.  Every table the source can hold next: the same rows and at
\* most one more, in any order.
DriftOf(rows) ==
    {t \in UNION {[1..n -> {Row(x) : x \in 1..MaxDriftId}] :
                     n \in Len(rows)..Min(Len(rows) + 1, MaxDriftId)} :
        /\ \A a, b \in DOMAIN t : t[a] = t[b] => a = b
        /\ Range(rows) \subseteq Range(t)
        /\ t # rows}

source_drift ==
    /\ script \in {"v2", "ws"} /\ pc = "top"
    /\ queries # <<>>
    /\ source' \in DriftOf(source)
    /\ UNCHANGED <<script, limit, batch_size, pc, last_id, offset, batch_num,
                   total_transactions, items, records, all_customers, i, attempt,
                   response, drawn, dest, outcomes, waits, sent, queries, pages,
                   writes, fetchFailed, first, dest0, lines, last_line_id,
                   total_line_items, run, customer_ids, req, signature,
                   all_transactions, line_dest, total_lines>>

InitDrift ==
    /\ script \in {"v2", "ws"}
    /\ \E S \in SUBSET (1..MaxDriftId) :
          source = IF script = "v2" THEN Desc(S) ELSE Asc(S)
    /\ limit \in 1..MaxLimit
    /\ batch_size \in IF script = "ws" THEN 1..MaxBatch ELSE {0}
    /\ pc = "top"
    /\ last_id = 0 /\ offset = 0 /\ batch_num = 0 /\ total_transactions = 0
    /\ items = <<>> /\ records = <<>> /\ all_customers = <<>> /\ i = 0
    /\ attempt = 0 /\ response = Unset /\ drawn = 0
    /\ dest = <<>>
    /\ outcomes = <<>> /\ waits = <<>> /\ sent = <<>> /\ queries = <<>>
    /\ pages = <<>> /\ writes = <<>> /\ fetchFailed = FALSE /\ first = <<>>
    /\ dest0 = dest
    /\ lines = {} /\ last_line_id = 0 /\ total_line_items = 0 /\ run = 1
    /\ customer_ids = IF script = "v2" THEN <<1>> ELSE <<>>
    /\ req = <<>> /\ signature = <<>>
    /\ all_transactions = <<>> /\ line_dest = <<>> /\ total_lines = 0

NextDrift ==
    \/ make_ns_request
    \/ sync_transactions_streaming_fetch
    \/ sync_transactions_streaming_page
    \/ sync_transactions_streaming_write
    \/ sync_customers_fetch
    \/ sync_customers_page
    \/ sync_customers_upsert
    \/ supabase_transport_error
    \/ source_drift

SpecDrift == InitDrift /\ [][NextDrift]_vars

\* ----------------- ws: sync_transactions (transactions, then line items)
\* Step 1 fetches every transaction page into all_transactions, step 2
\* upserts them in batches, step 3 fetches and writes the line items page by
\* page.  script is "ws_txn" in steps 1 and 2 and "ws_lines" in step 3; the
\* locals offset and items are shared by the loops of steps 1 and 3.  The
\* histories queries, pages, writes and fetchFailed start anew with step 3.

\* items before its first assignment: reading it is an UnboundLocalError.
unbound == <<[id |-> 0, val |-> 0]>>

\* ORDER BY t.id, tl.linesequencenumber
RECURSIVE OrderedLines(_)
OrderedLines(L) ==
    IF L = {} THEN <<>>
    ELSE LET m == CHOOSE r \in L : \A q \in L :
                     \/ r.transaction_id.v < q.transaction_id.v
                     \/ r.transaction_id.v = q.transaction_id.v /\ r.line_id <= q.line_id
         IN <<m>> \o OrderedLines(L \ {m})

\* total_lines = offset + (len(items) if items else 0)
total_lines_of(off, its) == off + (IF its # <<>> THEN Len(its) ELSE 0)

\* Step 3 begins: offset = 0, batch_num = 0.
start_step3 ==
    /\ script' = "ws_lines" /\ pc' = "top"
    /\ offset' = 0 /\ batch_num' = 0
    /\ queries' = <<>> /\ pages' = <<>> /\ writes' = <<>> /\ fetchFailed' = FALSE

\* The line-item loop is left: total_lines is computed and returned.
return_totals(its) ==
    IF its = unbound
    THEN pc' = "crash" /\ total_lines' = total_lines
    ELSE pc' = "done" /\ total_lines' = total_lines_of(offset, its)

ws_transactions_fetch ==
    /\ script = "ws_txn" /\ pc = "top"
    /\ queries' = Append(queries, offset)
    /\ attempt' = 0 /\ outcomes' = <<>> /\ waits' = <<>>
    /\ pc' = "ns"
    /\ UNCHANGED <<script, source, limit, batch_size, last_id, offset, batch_num,
                   total_transactions, items, records, all_customers, i,
                   response, drawn, dest, sent, pages, writes, fetchFailed, first,
                   dest0, lines, last_line_id, total_line_items, run, customer_ids,
                   req, signature, all_transactions, line_dest, total_lines>>

\* Step 1, after the call: the response check, the empty-page rule, extend,
\* the short-page rule, offset += limit.  When the loop breaks, step 2
\* follows, or step 3 at once when there is nothing to upsert.
ws_transactions_page ==
    /\ script = "ws_txn" /\ pc = "resp"
    /\ LET ok == fetch_ok(response)
           page == IF ok THEN OffsetQuery(source, offset, limit) ELSE items
           all == IF ok THEN all_transactions \o page ELSE all_transactions
       IN /\ items' = page
          /\ all_transactions' = all
          /\ IF ok /\ ~short_page(page, limit)
             THEN /\ pc' = "top" /\ offset' = next_offset(offset, limit)
                  /\ pages' = Append(pages, Ids(page))
                  /\ UNCHANGED <<script, batch_num, queries, writes, fetchFailed>>
             ELSE IF Len(all) = 0
                  THEN start_step3
                  ELSE /\ pc' = "upsert"
                       /\ pages' = IF ok /\ page # <<>> THEN Append(pages, Ids(page))
                                                        ELSE pages
                       /\ fetchFailed' = ~ok
                       /\ UNCHANGED <<script, offset, batch_num, queries, writes>>
    /\ i' = 0
    /\ UNCHANGED <<source, limit, batch_size, last_id, total_transactions, records,
                   all_customers, attempt, response, drawn, dest, outcomes, waits,
                   sent, first, dest0, lines, last_line_id, total_line_items, run,
                   customer_ids, req, signature, line_dest, total_lines>>

\* Step 2: for i in range(0, len(all_transactions), batch_size), one pass of
\* the body; after the last pass step 3 begins.
ws_transactions_upsert ==
    /\ script = "ws_txn" /\ pc = "upsert"
    /\ i < Len(all_transactions)
    /\ LET hi == Min(Len(all_transactions), i + batch_size)
           batch == SubSeq(all_transactions, i + 1, hi)
       IN /\ records' = Transform(batch)
          /\ i' = i + batch_size
          /\ \E status \in SbStatuses :
               /\ dest' = supabase_request(dest, records', status)
               /\ IF i' < Len(all_transactions)
                  THEN /\ writes' = Append(writes, [keys |-> Ids(batch),
                                                    ok |-> accepted(status)])
                       /\ UNCHANGED <<script, pc, offset, batch_num, queries, pages,
                                      fetchFailed>>
                  ELSE start_step3
    /\ UNCHANGED <<source, limit, batch_size, last_id, total_transactions, items,
                   all_customers, attempt, response, drawn, outcomes, waits, sent,
                   first, dest0, lines, last_line_id, total_line_items, run,
                   customer_ids, req, signature, all_transactions, line_dest,
                   total_lines>>

ws_lines_fetch ==
    /\ script = "ws_lines" /\ pc = "top"
    /\ batch_num' = batch_num + 1
    /\ queries' = Append(queries, offset)
    /\ attempt' = 0 /\ outcomes' = <<>> /\ waits' = <<>>
    /\ pc' = "ns"
    /\ UNCHANGED <<script, source, limit, batch_size, last_id, offset,
                   total_transactions, items, records, all_customers, i,
                   response, drawn, dest, sent, pages, writes, fetchFailed, first,
                   dest0, lines, last_line_id, total_line_items, run, customer_ids,
                   req, signature, all_transactions, line_dest, total_lines>>

\* Step 3, after the call: the response check, the empty-page rule, the
\* transform; a break leads to the computation of total_lines.
ws_lines_page ==
    /\ script = "ws_lines" /\ pc = "resp"
    /\ IF ~fetch_ok(response)
       THEN /\ fetchFailed' = TRUE
            /\ return_totals(items)
            /\ UNCHANGED <<items, records, pages>>
       ELSE /\ items' = OffsetQuery(OrderedLines(lines), offset, limit)
            /\ fetchFailed' = fetchFailed
            /\ IF items' = <<>>
               THEN return_totals(items') /\ UNCHANGED <<records, pages>>
               ELSE /\ records' = [k \in DOMAIN items' |-> line_record(items'[k])]
                    /\ pages' = Append(pages, LineKeys(items'))
                    /\ pc' = "write"
                    /\ total_lines' = total_lines
    /\ UNCHANGED <<script, source, limit, batch_size, last_id, offset, batch_num,
                   total_transactions, all_customers, i, attempt, response,
                   drawn, dest, outcomes, waits, sent, queries, writes, first,
                   dest0, lines, last_line_id, total_line_items, run, customer_ids,
                   req, signature, all_transactions, line_dest>>

\* Step 3: the write of the page, the short-page rule, offset += limit.
ws_lines_write ==
    /\ script = "ws_lines" /\ pc = "write"
    /\ \E status \in SbStatuses :
        /\ line_dest' = supabase_request(line_dest, records, status)
        /\ writes' = Append(writes, [keys |-> LineKeys(items), ok |-> accepted(status)])
    /\ IF short_page(items, limit)
       THEN return_totals(items) /\ offset' = offset
       ELSE /\ offset' = next_offset(offset, limit)
            /\ pc' = "top"
            /\ total_lines' = total_lines
    /\ UNCHANGED <<script, source, limit, batch_size, last_id, batch_num,
                   total_transactions, items, records, all_customers, i, attempt,
                   response, drawn, dest, outcomes, waits, sent, queries, pages,
                   fetchFailed, first, dest0, lines, last_line_id,
                   total_line_items, run, customer_ids, req, signature,
                   all_transactions>>

\* requests.post raises inside supabase_request in step 2 or step 3: nothing
\* catches it.
ws_transport_error ==
    /\ \/ script = "ws_txn" /\ pc = "upsert"
       \/ script = "ws_lines" /\ pc = "write"
    /\ pc' = "crash"
    /\ UNCHANGED <<script, source, limit, batch_size, last_id, offset, batch_num,
                   total_transactions, items, records, all_customers, i, attempt,
                   response, drawn, dest, outcomes, waits, sent, queries, pages,
                   writes, fetchFailed, first, dest0, lines, last_line_id,
                   total_line_items, run, customer_ids, req, signature,
                   all_transactions, line_dest, total_lines>>

InitWs ==
    /\ script = "ws_txn"
    /\ \E S \in SUBSET (1..MaxTxn) :
          /\ source = Asc(S)
          /\ lines \in {L \in SUBSET {LineRow(t, l) : t \in S, l \in 1..MaxLine} :
                           Cardinality(L) <= MaxLines}
    /\ limit \in 1..MaxLimit
    /\ batch_size \in 1..MaxBatch
    /\ pc = "top"
    /\ last_id = 0 /\ offset = 0 /\ batch_num = 0 /\ total_transactions = 0
    /\ items = unbound /\ records = <<>> /\ all_customers = <<>> /\ i = 0
    /\ attempt = 0 /\ response = Unset /\ drawn = 0
    /\ dest = <<>>
    /\ outcomes = <<>> /\ waits = <<>> /\ sent = <<>> /\ queries = <<>>
    /\ pages = <<>> /\ writes = <<>> /\ fetchFailed = FALSE /\ first = <<>>
    /\ dest0 = dest
    /\ last_line_id = 0 /\ total_line_items = 0 /\ run = 1
    /\ customer_ids = <<>>
    /\ req = <<>> /\ signature = <<>>
    /\ all_transactions = <<>> /\ line_dest = <<>> /\ total_lines = 0

NextWs ==
    \/ make_ns_request
    \/ ws_transactions_fetch
    \/ ws_transactions_page
    \/ ws_transactions_upsert
    \/ ws_lines_fetch
    \/ ws_lines_page
    \/ ws_lines_write
    \/ ws_transport_error

SpecWs == InitWs /\ [][NextWs]_vars

\* ================================================================ claims
Ceil(n, p) == (n + p - 1) \div p

Retryable(o) == o.kind = "exc" \/ (o.kind = "status" /\ o.code = 429)

Returned == pc = "resp"

NoDuplicates(s) == \A a, b \in DOMAIN s : s[a] = s[b] => a = b

Streaming == script \in {"h1", "v2"}

\* C1: when every attempt of one make_ns_request call receives HTTP 429, the
\* call makes exactly 3 attempts, returns None, and has waited exactly twice.
C1_RetryBoundTwoWaits ==
    (Returned /\ \A k \in DOMAIN outcomes : outcomes[k] = Status(429))
        => /\ Len(outcomes) = 3
           /\ response = None
           /\ Len(waits) = 2

\* C2 (as amended): in a watermark phase whose fetches all succeed, the pages
\* received are a partition of the source rows (none missing, none twice), in
\* Ceil(N, P) non-empty pages, and the phase ends after (N \div P) + 1 page
\* fetches: one more than Ceil(N, P) when P divides N, the last one empty.
C2_WatermarkPartition ==
    (script = "h1" /\ pc = "done" /\ ~fetchFailed)
        => /\ Flatten(pages) = Ids(SortById(Range(source)))
           /\ NoDuplicates(Flatten(pages))
           /\ Len(pages) = Ceil(Len(source), limit)
           /\ Len(queries) = (Len(source) \div limit) + 1

\* C2 as stated: ... and the phase ends after exactly Ceil(N, P) page fetches.
C2_CeilFetches ==
    (script = "h1" /\ pc = "done" /\ ~fetchFailed)
        => /\ Flatten(pages) = Ids(SortById(Range(source)))
           /\ Len(queries) = Ceil(Len(source), limit)

C2_Witness ==
    /\ script = "h1" /\ pc = "done" /\ ~fetchFailed
    /\ Len(source) = 5 /\ limit = 2 /\ Len(pages) = 3

FetchLoopOver == pc = "done" \/ (script = "ws" /\ pc \in {"upsert", "crash"})

\* C3: in an offset phase over a source whose order is the same on every
\* call, with all fetches succeeding, the pages received cover every source
\* row exactly once, in order, with no gap and no duplicate.
C3_OffsetCoverage ==
    (script \in {"v2", "ws"} /\ FetchLoopOver /\ ~fetchFailed)
        => /\ Flatten(pages) = Ids(source)
           /\ NoDuplicates(Flatten(pages))
           /\ (script = "ws" => all_customers = source)

C3_Witness ==
    /\ script = "v2" /\ pc = "done" /\ ~fetchFailed
    /\ Len(source) = 5 /\ limit = 2 /\ Len(pages) = 3 /\ offset = 4

AcceptedWrites == {k \in DOMAIN writes : writes[k].ok}

Keys(t) == {t[k].key : k \in DOMAIN t}

\* C4: once the sink has accepted a Batch, writing the same Batch again (any
\* number of times) leaves the destination as the first accepted write left
\* it: the rows of the Batch, plus the earlier rows under other keys, and no
\* two rows under one conflict key.
C4_IdempotentWrite ==
    (script = "sink" /\ AcceptedWrites # {})
        => /\ dest = first
           /\ Len(dest) = Cardinality(Keys(dest0) \cup Keys(records))
           /\ Range(dest) =
                Range(records) \cup {r \in Range(dest0) : r.key \notin Keys(records)}

\* The Batch was accepted twice; it overwrote a row and inserted one.
C4_Witness ==
    /\ script = "sink" /\ Cardinality(AcceptedWrites) >= 2
    /\ \E r \in Range(records), old \in Range(dest0) :
           r.key = old.key /\ r.val # old.val
    /\ \E r \in Range(records) : r.key \notin Keys(dest0)

AllWritesAccepted == \A k \in DOMAIN writes : writes[k].ok

\* C5: a watermark phase with no failure over N rows with page size P writes
\* exactly N destination records in exactly Ceil(N, P) batches, ends with the
\* watermark on the largest source id, and counts N rows fetched, N records
\* written and no failed batch.
C5_EndToEnd ==
    (script = "h1" /\ pc = "done" /\ ~fetchFailed /\ AllWritesAccepted)
        => /\ Len(dest) = Len(source)
           /\ Keys(dest) = Range(Ids(source))
           /\ Len(writes) = Ceil(Len(source), limit)
           /\ (source # <<>> => last_id = SetMax(Range(Ids(source))))
           /\ (source = <<>> => last_id = 0)
           /\ Len(Flatten(pages)) = Len(source)
           /\ total_transactions = Len(source)

\* The scaled instance of 2,500 rows in pages of 1,000: 5 rows, pages of 2.
C5_Witness ==
    /\ script = "h1" /\ pc = "done" /\ ~fetchFailed /\ AllWritesAccepted
    /\ Len(source) = 5 /\ limit = 2 /\ Len(writes) = 3
    /\ total_transactions = 5 /\ Len(dest) = 5

C7_ContinueAfterWriteFailure ==
    Streaming =>
        /\ Len(writes) <= Len(pages)
        /\ \A k \in DOMAIN writes : writes[k].keys = pages[k]
        /\ (pc = "done" => fetchFailed \/ items = <<>> \/ Len(items) < limit)
        /\ \A k \in DOMAIN writes :
              (~writes[k].ok /\ Len(writes[k].keys) = limit)
                  => (Len(queries) > k \/ (Len(writes) = k /\ pc = "top"))

\* A batch was rejected and the next page was fetched and written.
C7_Witness ==
    /\ Streaming
    /\ Len(writes) >= 2 /\ ~writes[1].ok /\ writes[2].ok
    /\ Len(queries) >= 2

\* C8: a response whose status is not 429 (401, 500, 200, ...) ends the call
\* on the attempt that received it: it is the value returned, no sleep
\* follows it and no further attempt is made.
C8_NoRetryOnOtherStatus ==
    \A k \in DOMAIN outcomes :
        (outcomes[k].kind = "status" /\ outcomes[k].code # 429)
            => /\ k = Len(outcomes)
               /\ pc # "ns"
               /\ response = outcomes[k]
               /\ Len(waits) = k - 1

\* A 500 received on the second attempt is what the call returned.
C8_Witness ==
    /\ Returned /\ response = Status(500)
    /\ outcomes = <<Status(429), Status(500)>> /\ waits = <<RATE_LIMIT_SLEEP>>

\* C9: every attempt is signed with a nonce drawn for that attempt: no two
\* requests sent in a run carry the same nonce, the retries after a 429 or a
\* transport exception included.
C9_FreshNonce ==
    /\ NoDuplicates(sent)
    /\ Len(sent) = drawn
    /\ (pc \in {"ns", "resp"} => Len(outcomes) <= Len(sent))

\* Two calls were made, the second retried after a 429 and after an exception.
C9_Witness ==
    /\ Len(queries) = 2 /\ Len(outcomes) = 3
    /\ outcomes[1] = Status(429) /\ outcomes[2] = Exc
    /\ Len(sent) >= 4

\* C10: one call makes at most 3 attempts whatever mix of 429s and transport
\* exceptions it meets, it returns None exactly when all 3 attempts ended in
\* a 429 or an exception, and the caller takes None as a fetch failure.
C10_SentinelIffExhausted ==
    /\ Len(outcomes) <= 3
    /\ (pc # "ns" /\ outcomes # <<>>) =>
          (response = None <=>
              (Len(outcomes) = 3 /\ \A k \in DOMAIN outcomes : Retryable(outcomes[k])))
    /\ (response = None /\ pc # "resp") => (fetchFailed /\ FetchLoopOver)

\* A call that met 429, exception, 429 returned None and the phase failed.
C10_Witness ==
    /\ response = None /\ fetchFailed
    /\ outcomes = <<Status(429), Exc, Status(429)>>

AcceptedKeys == UNION {Range(writes[k].keys) : k \in AcceptedWrites}

\* C16: when a streaming phase ends in a fetch failure, the destination holds
\* exactly the records of the batches it accepted before the failure, each as
\* it was written, and nothing of a rejected batch.
C16_AcceptedBatchesStay ==
    (Streaming /\ fetchFailed)
        => /\ pc = "done"
           /\ Keys(dest) = AcceptedKeys
           /\ Len(dest) = Cardinality(AcceptedKeys)
           /\ Range(dest) \subseteq Range(Transform(source))

\* The fetch of the third page failed; the first batch had been accepted and
\* the second rejected.
C16_Witness ==
    /\ Streaming /\ fetchFailed /\ pc = "done"
    /\ Len(writes) = 2 /\ writes[1].ok /\ ~writes[2].ok
    /\ Len(dest) = limit

\* The state of the phase: the page handler transforms the page in the step
\* that takes the phase from Fetching to Writing.
PhaseState ==
    CASE pc = "top" /\ queries = <<>> -> "NotStarted"
      [] pc = "top" /\ queries # <<>> -> "Fetching"
      [] pc \in {"ns", "resp"} -> "Fetching"
      [] pc = "write" -> "Writing"
      [] pc = "done" /\ ~fetchFailed -> "Done"
      [] pc = "done" /\ fetchFailed -> "Failed"
      [] OTHER -> "Crashed"

PhaseTransitions ==
    {<<"NotStarted", "Fetching">>, <<"Fetching", "Fetching">>,
     <<"Fetching", "Writing">>, <<"Fetching", "Done">>, <<"Fetching", "Failed">>,
     <<"Writing", "Fetching">>, <<"Writing", "Done">>, <<"Writing", "Failed">>}

\* C20: a streaming phase moves only along NotStarted -> Fetching ->
\* Transforming -> Writing -> (Fetching | Done | Failed): a fetch failure
\* leads to Failed, an empty or short page to Done, nothing leaves Done or
\* Failed, and every write carries the page fetched just before it.
C20_PhaseStateMachine ==
    [][Streaming =>
          /\ <<PhaseState, PhaseState'>> \in PhaseTransitions
          /\ (PhaseState' = "Failed" => ~fetch_ok(response))
          /\ (PhaseState' = "Done" => items' = <<>> \/ short_page(items', limit))
          /\ (writes' # writes =>
                /\ fetch_ok(response)
                /\ writes'[Len(writes')].keys = pages[Len(pages)]
                /\ Len(writes') = Len(pages))]_vars


\* C15: a failure inside a phase -- a fetch failure, a rejected batch, or a
\* transport-level failure of the destination call -- ends at most that phase
\* and never the run: the phase function always returns to main, which goes on
\* to the next phase and to the final report. In the model a phase that
\* returns ends in "done" (for the customer phase, after its upsert loop); the
\* label "crash" is an exception leaving the phase function, which main does
\* not catch.
C15_PhaseFailureNeverCrashes == pc # "crash"


FetchedLines == UNION {Range(pages[k]) : k \in DOMAIN pages}

\* C18: in a watermark phase the cursor never decreases from one page fetch
\* to the next, the rows of the pages before the latest one have identifiers
\* strictly below the current watermark (those of the latest page at or below
\* it), and reissuing the query with the current watermark misses no row:
\* every source row whose identifier is not above the watermark has already
\* been fetched.
C18_WatermarkResume ==
    script = "h1_lines" =>
        /\ \A k \in DOMAIN queries : k > 1 => queries[k - 1] <= queries[k]
        /\ \A k \in DOMAIN queries : queries[k] <= last_line_id
        /\ \A k \in DOMAIN pages : \A key \in Range(pages[k]) :
              IF k < Len(pages) THEN key[2] < last_line_id
                                ELSE key[2] <= last_line_id
        /\ \A r \in lines : r.line_id <= last_line_id => LineKey(r) \in FetchedLines


Missing(x) == x \in {Absent, JsonNull}

SourceOf(d) == {r \in lines : LineKey(r) = d.key}

Coerced(r, d) ==
    /\ Missing(r.quantity) => d.quantity = Num(0)
    /\ Missing(r.rate) => d.rate = JsonNull
    /\ Missing(r.netamount) => d.net_amount = JsonNull
    /\ Missing(r.foreignamount) => d.foreign_amount = JsonNull

\* C11: in the line-item transform a source row whose quantity is absent or
\* null gives a record with quantity 0, and a source row whose rate, net
\* amount or foreign amount is absent or null gives null for that field,
\* never 0 -- in the Batch about to be written and in the destination.
C11_NullVsZero ==
    script = "h1_lines" =>
        /\ pc = "write" => \A k \in DOMAIN records : Coerced(items[k], records[k])
        /\ \A k \in DOMAIN dest : \A r \in SourceOf(dest[k]) : Coerced(r, dest[k])

C11_Witness ==
    /\ script = "h1_lines" /\ pc = "done"
    /\ \E k \in DOMAIN dest : \E r \in SourceOf(dest[k]) :
          /\ r.quantity = Absent /\ r.rate = JsonNull
          /\ r.netamount = Absent /\ r.foreignamount = Num(MaxVal)
          /\ dest[k].quantity = Num(0) /\ dest[k].rate = JsonNull
          /\ dest[k].foreign_amount = Num(MaxVal)

\* C12: a Batch with a record whose conflict key has a null or missing field
\* is never sent to the destination.
C12_KeyPrecondition ==
    script = "h1_lines" =>
        \A k \in DOMAIN writes : \A key \in Range(writes[k].keys) : ~Missing(key[1])


\* C13: when the source connectivity test or the destination connectivity
\* test of main fails (None or a status other than 200) the run aborts before
\* any phase: main starts its first phase only from the destination test and
\* only when both tests answered 200, and while main has not started a phase
\* no sync query has been sent and no batch has been written.
C13_AbortBeforeAnyPhase ==
    [][/\ (script \in Mains /\ pc = "resp" /\ ~fetch_ok(response)) => pc' = "aborted"
       /\ (script \in Mains /\ pc = "sb_test" /\ response' # response)
             => (fetch_ok(response') \/ pc' = "aborted")
       /\ (script \in Mains /\ script' \notin Mains)
             => (pc = "sb_test" /\ fetch_ok(response) /\ fetch_ok(response'))
       /\ script' \in Mains
             => (queries' = <<>> /\ writes' = <<>> /\ dest' = dest0 /\ batch_num' = 0)]_vars

C13_Witness ==
    /\ script \in Mains /\ pc = "aborted"
    /\ response = Status(401)
    /\ Len(sent) = 1
    /\ source # <<>>

GateClosed == script = "v2" /\ pc # "gate" /\ customer_ids = <<>>

\* C14: in the V2 sync, when the customer id list read from the destination
\* is empty or the read is answered with a status other than 200, the phase
\* function returns at once with totals (0, 0): no sync query is sent and no
\* batch is written.  (When the read raises instead of answering, the run
\* ends there, also with no query and no batch.)
C14_EmptyInputFailsFast ==
    GateClosed =>
        /\ queries = <<>> /\ writes = <<>> /\ dest = dest0 /\ batch_num = 0
        /\ total_transactions = 0 /\ total_line_items = 0
        /\ pc \in {"done", "crash"}
        /\ pc = "crash" => response = Status(200)

C14_Witness ==
    /\ GateClosed /\ pc = "done"
    /\ response = Status(401)
    /\ source # <<>>


FailureFree == pc = "done" /\ ~fetchFailed /\ AllWritesAccepted

\* C17: against an unchanged source, when a phase is run again after a first
\* run that ended in any way (rejected batches, a fetch failure, an uncaught
\* exception, or no failure at all) and the second run has no failure, the
\* destination holds exactly what one failure-free run writes: one row per
\* source row, with the source's values, and no conflict key twice.
C17_RerunSafe ==
    (run = 2 /\ FailureFree)
        => /\ Range(dest) = Range(Transform(source))
           /\ Len(dest) = Len(source)

C17_Witness ==
    /\ run = 2 /\ FailureFree
    /\ dest0 # <<>> /\ Len(dest0) < Len(dest)
    /\ Len(writes) > 1


\* C19: with timestamp and nonce fixed, signing the same method, URL and
\* credentials twice gives the same authentication code, and two requests
\* that differ in one parameter get different codes.
C19_SignatureDeterminism ==
    (script = "sign" /\ pc = "done")
        => (signature[1] = signature[2] <=> req[1] = req[2])


Last(s) == s[Len(s)]

\* C21: in a streaming phase pages are fetched and written in cursor order,
\* one network call at a time: a fetch is issued only when every page
\* received so far has had its write call return, a write carries the page
\* just received, and every fetch sends a cursor strictly greater than the
\* fetch before it.
C21_OneCallInCursorOrder ==
    [][Streaming =>
          /\ queries' # queries =>
                /\ pc = "top" /\ pc' = "ns"
                /\ Len(writes) = Len(pages)
                /\ queries # <<>> => Last(queries') > Last(queries)
          /\ writes' # writes =>
                /\ pc = "write" /\ pc' \in {"top", "done"}
                /\ Len(writes') = Len(pages)
                /\ Last(writes').keys = Last(pages)]_vars

C21_Witness ==
    /\ Streaming /\ pc = "ns"
    /\ Len(queries) = 3 /\ Len(writes) = 2


OffsetMode == script \in {"v2", "ws"}

\* C22: in offset mode the k-th fetch of a phase, counted from 0, sends the
\* offset k * pageSize: the offset moves only by pageSize and only after a
\* full page was fetched with success, it stays where it is after a failed
\* fetch, and no fetch follows a failed fetch, an empty page or a page of
\* fewer than pageSize rows.
C22_OffsetIsPageTimesSize ==
    [][OffsetMode =>
          /\ queries' # queries =>
                /\ Last(queries') = (Len(queries') - 1) * limit
                /\ queries # <<>> =>
                      (fetch_ok(response) /\ ~fetchFailed /\ Len(items) = limit)
          /\ offset' # offset =>
                /\ offset' = offset + limit
                /\ fetch_ok(response) /\ Len(items') = limit
          /\ fetchFailed' => offset' = offset /\ queries' = queries]_vars

C22_Witness ==
    /\ OffsetMode /\ pc = "ns"
    /\ limit = 2 /\ Len(queries) = 3 /\ Last(queries) = 4


\* C23: for every finite source and every pattern of fetch and write
\* outcomes, a phase in offset mode or in watermark mode stops: it reaches
\* its end (or is ended by a destination call that raises instead of
\* returning), and it never issues more page fetches than the source has
\* rows, plus one.
C23_Termination ==
    /\ <>(pc \in {"done", "crash"})
    /\ [](Len(queries) <= Len(source) + 1)

C23_Witness ==
    /\ pc = "done" /\ script \in Scripts
    /\ Len(source) = MaxRerunId
    /\ Len(queries) = Len(source) + 1
    /\ \E k \in DOMAIN writes : ~writes[k].ok


\* C24: make_ns_request never hands a response with status 429 to its
\* caller: when the last permitted attempt is answered 429 the call returns
\* None, the very value it returns when the last attempt raised, so the
\* caller sees no difference between the two.
C24_RateLimitBecomesNone ==
    Returned =>
        /\ response # Status(429)
        /\ (outcomes # <<>> /\ Retryable(Last(outcomes)))
              => (response = None /\ Len(outcomes) = retries)

C24_Witness ==
    /\ Returned /\ response = None
    /\ Len(outcomes) = retries
    /\ Last(outcomes) = Status(429) /\ outcomes[1] = Exc


WrittenKeys == UNION {Range(writes[k].keys) : k \in DOMAIN writes}

\* C25: a non-empty last page of fewer than pageSize rows is transformed and
\* written before the phase ends: when a phase has ended, every short page
\* it received has gone through a write call, and in a streaming phase the
\* last write call carries the last page received.
C25_ShortPageWritten ==
    (script \in Scripts /\ pc = "done") =>
        /\ \A k \in DOMAIN pages :
              Len(pages[k]) < limit => Range(pages[k]) \subseteq WrittenKeys
        /\ (Streaming /\ pages # <<>>) =>
              (Len(writes) = Len(pages) /\ Last(writes).keys = Last(pages))

C25_Witness ==
    /\ Streaming /\ pc = "done" /\ ~fetchFailed
    /\ limit = 2 /\ Len(pages) = 2 /\ Len(Last(pages)) = 1
    /\ Last(writes).ok /\ Len(dest) = 3


Cursor == IF script = "h1" THEN last_id ELSE offset

RejectedWrites == DOMAIN writes \ AcceptedWrites

\* C26: the cursor of a streaming phase moves past a page whether its batch
\* was accepted or rejected: no row is fetched in two pages, the rows of a
\* rejected batch appear in no other write call and not in the destination,
\* the total counts exactly the rows of the accepted batches, and when the
\* loop goes round again after a write the cursor is beyond the one last
\* sent.
C26_CursorPassesFailedBatch ==
    Streaming =>
        /\ \A j, k \in DOMAIN pages : j # k => Range(pages[j]) \cap Range(pages[k]) = {}
        /\ \A k \in RejectedWrites :
              /\ \A j \in DOMAIN writes \ {k} :
                    Range(writes[k].keys) \cap Range(writes[j].keys) = {}
              /\ Range(writes[k].keys) \cap Keys(dest) = {}
        /\ total_transactions = Cardinality(AcceptedKeys)
        /\ (pc = "top" /\ writes # <<>>) => Cursor > Last(queries)

C26_Witness ==
    /\ Streaming /\ pc = "done" /\ ~fetchFailed
    /\ Len(writes) = 3
    /\ ~writes[1].ok /\ writes[2].ok /\ ~writes[3].ok
    /\ total_transactions = limit


RECURSIVE AcceptedSizes(_)
AcceptedSizes(ws) ==
    IF ws = <<>> THEN 0
    ELSE (IF Head(ws).ok THEN Len(Head(ws).keys) ELSE 0) + AcceptedSizes(Tail(ws))

\* C27: in the streaming phases of V2 and H1-2025 the records-written total
\* is at every point the sum of the sizes of the batches the destination
\* has accepted so far in the phase: no record of a rejected batch is
\* counted, and the total never exceeds the number of rows fetched.
C27_TotalIsAcceptedSum ==
    Streaming =>
        /\ total_transactions = AcceptedSizes(writes)
        /\ total_transactions <= Len(Flatten(pages))
        /\ (\A k \in DOMAIN writes : ~writes[k].ok) => total_transactions = 0

C27_Witness ==
    /\ Streaming /\ pc = "top"
    /\ Len(writes) = 2 /\ writes[1].ok /\ ~writes[2].ok
    /\ limit = 2 /\ total_transactions = 2
    /\ Len(Flatten(pages)) = 4


RefetchedIds == {x \in 1..MaxDriftId :
                    \E j, k \in DOMAIN pages : j # k /\ x \in Range(pages[j]) \cap Range(pages[k])}

\* C28: after any sequence of batch writes the destination holds no two rows
\* with the same conflict key, also when offset pagination over a source
\* that grows or reorders between calls returns a source row in two pages.
C28_NoDuplicateKeys ==
    /\ UniqueKeys(dest)
    /\ Keys(dest) \subseteq {source[k].id : k \in DOMAIN source}

C28_Witness ==
    /\ RefetchedIds # {}
    /\ pc = "done" /\ AllWritesAccepted /\ ~fetchFailed
    /\ RefetchedIds \subseteq Keys(dest)
    /\ UniqueKeys(dest)


PagesWith(key) == {k \in DOMAIN pages : key \in Range(pages[k])}

\* C29: in sync_line_items of H1-2025, over a source whose rows are unique by
\* (transaction id, line id), a phase whose fetches all succeed has fetched
\* every source line item in exactly one page when it ends.
C29_EveryLineFetchedOnce ==
    (script = "h1_lines" /\ pc = "done" /\ ~fetchFailed)
        => \A r \in lines : Cardinality(PagesWith(LineKey(r))) = 1


\* C30: in sync_transactions of the wholesale script the line-item total
\* returned at the end of the line-item step is the number of line-item
\* rows fetched in that step, whatever the outcome: all pages fetched, a
\* fetch failure on the first page, or a fetch failure on a later page.
C30_TotalLinesIsRowsFetched ==
    (script = "ws_lines" /\ pc = "done") => total_lines = Len(Flatten(pages))


\* What a source field holds as a number: nothing when it is missing or
\* null, else the number itself (given as a number or as its decimal string).
Carried(x) == IF x \in {Absent, JsonNull} THEN JsonNull ELSE Num(x.v)

\* C31: the transform maps a non-quantity numeric field (rate, net amount,
\* foreign amount) to null only when the source field is absent or null; a
\* value that is present, zero included, is carried into the destination
\* record as that same number.
C31_NullOnlyWhenAbsent ==
    (script = "h1_lines" /\ pc = "write")
        => \A k \in DOMAIN records :
              /\ records[k].rate = Carried(items[k].rate)
              /\ records[k].net_amount = Carried(items[k].netamount)
              /\ records[k].foreign_amount = Carried(items[k].foreignamount)

====
